---- MODULE Spec2Model ----
(***************************************************************************)
(* pixel-serve-server: the image request handler (src/src/pixel.ts), the   *)
(* source resolution functions (src/src/functions.ts) and the path safety  *)
(* validator isValidPath.                                                  *)
(*                                                                         *)
(* Strings are sequences of characters.  A character is a one-letter       *)
(* string; the control characters U+0000 and U+0001 are written "NUL" and  *)
(* "SOH".  Paths follow node:path on POSIX (path.sep = "/").               *)
(***************************************************************************)
EXTENDS Integers, Sequences, FiniteSets, TLC

VARIABLES
    fs,       \* the filesystem: canonical path (sequence of names) -> node
    vpIn,     \* arguments of a direct call of isValidPath
    vpOut,    \* what that call returned
    fiIn,     \* arguments and environment of a direct call of fetchImage
    fiOut,    \* what that call returned
    rdIn,     \* arguments of direct calls of renderOptions and renderUserData
    rdOut,    \* what those calls returned
    etIn,     \* two runs of the transform and the ETag: query, source bytes
    etOut,    \* what the two runs produced
    rlIn,     \* arguments of a call of readLocalImage that runs step by step
    rlOut,    \* where that call stands, and what it returned
    cfg,      \* serveImage: the options the middleware was registered with
    req,      \* serveImage: the request (query and If-None-Match header)
    pc,       \* serveImage: where the handler stands
    loc,      \* serveImage: its local variables
    cb,       \* the promise returned by getUserFolder
    res,      \* the response object: status, headers, body
    sent,     \* the terminal calls made so far: "send", "end", "next"
    log,      \* what the request did: GETs, local reads, fallback loads
    world     \* what the filesystem and the network do to the resolution

pathVars == <<vpIn, vpOut>>

fetchVars == <<fiIn, fiOut>>

renderVars == <<rdIn, rdOut>>

etagVars == <<etIn, etOut>>

raceVars == <<rlIn, rlOut>>

serveVars == <<cfg, req, pc, loc, cb, res, sent, log, world>>

vars == <<fs, vpIn, vpOut, fiIn, fiOut, rdIn, rdOut, etIn, etOut, rlIn, rlOut, cfg, req, pc, loc, cb, res, sent, log, world>>

Null == "null"

\* the value `undefined` of an optional text
Undefined == <<"undefined">>

\* no request is being served
ServeIdle ==
    /\ cfg = Null /\ req = Null /\ pc = "idle" /\ loc = Null
    /\ cb = Null /\ res = Null /\ sent = <<>> /\ log = Null /\ world = Null

(***************************************************************************)
(* Bounds of the model.                                                    *)
(***************************************************************************)
\* longest candidate path, in "/"-separated segments
MaxSegs == 3

(***************************************************************************)
(* Strings.                                                                *)
(***************************************************************************)
ControlChars == {"NUL", "SOH"}

\* String.prototype.startsWith
StartsWith(s, p) == Len(s) >= Len(p) /\ SubSeq(s, 1, Len(p)) = p

\* String.prototype.includes, for one character
Includes(s, c) == \E i \in 1..Len(s) : s[i] = c

\* String.prototype.split("/")
RECURSIVE SplitSlash(_)
SplitSlash(s) ==
    IF ~Includes(s, "/") THEN <<s>>
    ELSE LET i == CHOOSE k \in 1..Len(s) :
                      s[k] = "/" /\ \A j \in 1..(k-1) : s[j] # "/"
         IN  <<SubSeq(s, 1, i-1)>> \o SplitSlash(SubSeq(s, i+1, Len(s)))

\* Array.prototype.join("/")
RECURSIVE JoinSlash(_)
JoinSlash(segs) ==
    IF segs = <<>> THEN <<>>
    ELSE IF Len(segs) = 1 THEN segs[1]
    ELSE segs[1] \o <<"/">> \o JoinSlash(Tail(segs))

(***************************************************************************)
(* node:path (POSIX).  A resolved path is kept as its sequence of names;   *)
(* PathStr gives back the string.                                          *)
(***************************************************************************)
DotDot == <<".", ".">>
Dot    == <<".">>

\* the process's working directory, as a sequence of names (the root)
Cwd == <<>>

\* path.isAbsolute
PathIsAbsolute(s) == Len(s) > 0 /\ s[1] = "/"

\* normalizeString of node:path: drops "" and ".", lets ".." pop a name
RECURSIVE NormSegs(_, _)
NormSegs(segs, acc) ==
    IF segs = <<>> THEN acc
    ELSE LET h == Head(segs) IN
         IF h = <<>> \/ h = Dot THEN NormSegs(Tail(segs), acc)
         ELSE IF h = DotDot
              THEN NormSegs(Tail(segs),
                            IF acc = <<>> THEN <<>>
                            ELSE SubSeq(acc, 1, Len(acc) - 1))
              ELSE NormSegs(Tail(segs), Append(acc, h))

\* path.resolve(from, to): `from` is already resolved (a sequence of names)
PathResolve(from, to) ==
    IF PathIsAbsolute(to) THEN NormSegs(SplitSlash(to), <<>>)
    ELSE NormSegs(SplitSlash(to), from)

\* the string of a resolved path
RECURSIVE PathStr(_)
PathStr(segs) ==
    IF segs = <<>> THEN <<"/">>
    ELSE IF Len(segs) = 1 THEN <<"/">> \o segs[1]
    ELSE <<"/">> \o segs[1] \o PathStr(Tail(segs))

\* length of the longest common prefix of two resolved paths
RECURSIVE CommonLen(_, _)
CommonLen(a, b) ==
    IF a = <<>> \/ b = <<>> \/ Head(a) # Head(b) THEN 0
    ELSE 1 + CommonLen(Tail(a), Tail(b))

\* path.relative(from, to) of two resolved paths, as a string
PathRelative(from, to) ==
    LET c   == CommonLen(from, to)
        ups == [i \in 1..(Len(from) - c) |-> DotDot]
    IN  JoinSlash(ups \o SubSeq(to, c + 1, Len(to)))

(***************************************************************************)
(* The filesystem.                                                         *)
(***************************************************************************)
Dir         == [kind |-> "dir",  target |-> <<>>, bytes |-> Null, size |-> 0]
File(b, n)  == [kind |-> "file", target |-> <<>>, bytes |-> b,    size |-> n]
Link(t)     == [kind |-> "link", target |-> t,    bytes |-> Null, size |-> 0]

N_a   == <<"a">>
N_b   == <<"b">>
N_s   == <<"s">>
N_l   == <<"l">>
N_k   == <<"k">>
N_o   == <<"o">>
N_f   == <<"f">>
N_lb  == <<"l", "b">>
N_big == <<"g">>
N_ddf == <<".", ".", "f">>

\* how many symbolic links realpath follows before ELOOP
MaxLinks == 4

\*  /b            the image directory         /b/a      an image
\*  /b/s/a        an image in a subdirectory  /b/..f    an image whose name
\*  /b/k -> /b/s  a link that stays inside              starts with two dots
\*  /b/l -> /o    a link that leaves          /b/g      a large image
\*  /o/a          a file outside              /f        a plain file
\*  /lb -> /b     a link to the image directory
InitialFs ==
    ( <<>>            :> Dir ) @@
    ( <<N_b>>         :> Dir ) @@
    ( <<N_b, N_a>>    :> File("img_a", 1) ) @@
    ( <<N_b, N_s>>    :> Dir ) @@
    ( <<N_b, N_s, N_a>> :> File("img_sa", 1) ) @@
    ( <<N_b, N_ddf>>  :> File("img_ddf", 1) ) @@
    ( <<N_b, N_big>>  :> File("img_big", 3) ) @@
    ( <<N_b, N_k>>    :> Link(<<N_b, N_s>>) ) @@
    ( <<N_b, N_l>>    :> Link(<<N_o>>) ) @@
    ( <<N_o>>         :> Dir ) @@
    ( <<N_o, N_a>>    :> File("secret", 1) ) @@
    ( <<N_f>>         :> File("plain", 1) ) @@
    ( <<N_lb>>        :> Link(<<N_b>>) )

Fail == [ok |-> FALSE, path |-> <<>>]

\* fs.realpath: follows every symbolic link; ENOENT, ENOTDIR and ELOOP fail
RECURSIVE RealpathWalk(_, _, _, _)
RealpathWalk(f, cur, rest, fuel) ==
    IF rest = <<>> THEN [ok |-> TRUE, path |-> cur]
    ELSE LET nxt == Append(cur, Head(rest)) IN
         IF f[cur].kind # "dir" THEN Fail
         ELSE IF nxt \notin DOMAIN f THEN Fail
         ELSE IF f[nxt].kind = "link"
              THEN IF fuel = 0 THEN Fail
                   ELSE RealpathWalk(f, <<>>, f[nxt].target \o Tail(rest), fuel - 1)
              ELSE RealpathWalk(f, nxt, Tail(rest), fuel)

Realpath(f, segs) == RealpathWalk(f, <<>>, segs, MaxLinks)

(***************************************************************************)
(* isValidPath (functions.ts).  `fault` is a failure the filesystem        *)
(* reports whatever its contents (EACCES, EIO): "none", "realpath" or      *)
(* "stat".  The result records what the call returned and whether it       *)
(* reached the filesystem.                                                 *)
(***************************************************************************)
Faults == {"none", "realpath", "stat"}

VpResult(r, touched, thrown) ==
    [called |-> TRUE, result |-> r, fsTouched |-> touched, threw |-> thrown]

\* no call made yet
NotCalled == [called |-> FALSE]

\* /^[^\x00-\x1F]+$/.test(specifiedPath)
NoControlChars(s) == Len(s) > 0 /\ \A i \in 1..Len(s) : s[i] \notin ControlChars

\* lines 24-28: the checks made before the filesystem is consulted
SyntaxOk(basePath, specifiedPath) ==
    /\ basePath # <<>> /\ specifiedPath # <<>>
    /\ ~Includes(specifiedPath, "NUL")
    /\ ~PathIsAbsolute(specifiedPath)
    /\ NoControlChars(specifiedPath)

\* a containment test that forgets that the candidate may be the base itself
ContainedNoSelf(realBase, realPath) ==
    LET normalizedBase == PathStr(realBase) \o <<"/">>
        relative == PathRelative(realBase, realPath)
    IN  /\ ~StartsWith(relative, DotDot) /\ ~PathIsAbsolute(relative)
        /\ StartsWith(PathStr(realPath), normalizedBase)

\* lines 41-48: the containment decision on the two canonical paths
Contained(realBase, realPath) ==
    LET normalizedBase == PathStr(realBase) \o <<"/">>
        normalizedPath == PathStr(realPath) \o <<"/">>
        isInside == StartsWith(normalizedPath, normalizedBase)
                    \/ realPath = realBase
        relative == PathRelative(realBase, realPath)
    IN  ~StartsWith(relative, DotDot) /\ ~PathIsAbsolute(relative) /\ isInside

\* the try block, lines 24-48: a rejected filesystem promise is a throw
IsValidPathTry(f, basePath, specifiedPath, fault) ==
    IF ~SyntaxOk(basePath, specifiedPath)
    THEN VpResult(FALSE, FALSE, FALSE)
    ELSE LET resolvedBase == PathResolve(Cwd, basePath)
             resolvedPath == PathResolve(resolvedBase, specifiedPath)
             realBase == Realpath(f, resolvedBase)
             realPath == Realpath(f, resolvedPath)
         IN  IF fault = "realpath" \/ ~realBase.ok \/ ~realPath.ok
             THEN VpResult(Null, TRUE, TRUE)
             ELSE IF fault = "stat"
             THEN VpResult(Null, TRUE, TRUE)
             ELSE IF f[realBase.path].kind # "dir"
             THEN VpResult(FALSE, TRUE, FALSE)
             ELSE VpResult(Contained(realBase.path, realPath.path), TRUE, FALSE)

\* isValidPath with the containment test made on the resolved paths, the
\* symbolic links not followed
IsValidPathLexical(f, basePath, specifiedPath, fault) ==
    IF ~SyntaxOk(basePath, specifiedPath)
    THEN VpResult(FALSE, FALSE, FALSE)
    ELSE LET resolvedBase == PathResolve(Cwd, basePath)
             resolvedPath == PathResolve(resolvedBase, specifiedPath)
         IN  IF fault # "none" \/ ~Realpath(f, resolvedBase).ok
                \/ ~Realpath(f, resolvedPath).ok
                \/ f[Realpath(f, resolvedBase).path].kind # "dir"
             THEN VpResult(FALSE, TRUE, FALSE)
             ELSE VpResult(Contained(resolvedBase, resolvedPath), TRUE, FALSE)

\* isValidPath without its catch block
IsValidPathNoCatch(f, basePath, specifiedPath, fault) ==
    IsValidPathTry(f, basePath, specifiedPath, fault)

\* isValidPath: the try block, and the catch block of lines 49-51
IsValidPath(f, basePath, specifiedPath, fault) ==
    LET r == IsValidPathTry(f, basePath, specifiedPath, fault)
    IN  IF r.threw THEN VpResult(FALSE, r.fsTouched, FALSE) ELSE r

(***************************************************************************)
(* More strings: case, and the URL class of Node (WHATWG URL), for the     *)
(* part of the syntax the sources of this model use: a scheme, "//", a     *)
(* host with an optional port, and a path.                                 *)
(***************************************************************************)
UpperChars ==
    <<"A","B","C","D","E","F","G","H","I","J","K","L","M",
      "N","O","P","Q","R","S","T","U","V","W","X","Y","Z">>
LowerChars ==
    <<"a","b","c","d","e","f","g","h","i","j","k","l","m",
      "n","o","p","q","r","s","t","u","v","w","x","y","z">>
Digits == {"0","1","2","3","4","5","6","7","8","9"}

IsUpper(c) == \E i \in 1..Len(UpperChars) : UpperChars[i] = c
IsLower(c) == \E i \in 1..Len(LowerChars) : LowerChars[i] = c
IsAlpha(c) == IsUpper(c) \/ IsLower(c)

ToLowerChar(c) ==
    IF IsUpper(c)
    THEN LowerChars[CHOOSE i \in 1..Len(UpperChars) : UpperChars[i] = c]
    ELSE c

\* String.prototype.toLowerCase
ToLower(s) == [i \in 1..Len(s) |-> ToLowerChar(s[i])]

\* String.prototype.indexOf for a set of characters, 1-based; 0 when absent
IndexOfAny(s, cs) ==
    IF \E i \in 1..Len(s) : s[i] \in cs
    THEN CHOOSE i \in 1..Len(s) :
             s[i] \in cs /\ \A j \in 1..(i-1) : s[j] \notin cs
    ELSE 0

\* String.prototype.lastIndexOf for one character; 0 when absent
LastIndexOf(s, c) ==
    IF Includes(s, c)
    THEN CHOOSE i \in 1..Len(s) :
             s[i] = c /\ \A j \in (i+1)..Len(s) : s[j] # c
    ELSE 0

From(s, i) == SubSeq(s, i, Len(s))

\* String.prototype.trim, for the space character
RECURSIVE Trim(_)
Trim(s) ==
    IF s = <<>> THEN s
    ELSE IF Head(s) = " " THEN Trim(Tail(s))
    ELSE IF s[Len(s)] = " " THEN Trim(SubSeq(s, 1, Len(s) - 1))
    ELSE s

S_http  == <<"h","t","t","p">>
S_https == <<"h","t","t","p","s">>
S_ftp   == <<"f","t","p">>

SpecialSchemes == {S_http, S_https, S_ftp, <<"w","s">>, <<"w","s","s">>}

DefaultPort(scheme) ==
    IF scheme = S_http THEN <<"8","0">>
    ELSE IF scheme = S_https THEN <<"4","4","3">>
    ELSE IF scheme = S_ftp THEN <<"2","1">>
    ELSE <<>>

SchemeOk(t) ==
    /\ t # <<>> /\ IsAlpha(t[1])
    /\ \A i \in 1..Len(t) : IsAlpha(t[i]) \/ t[i] \in Digits \cup {"+", "-", "."}

RECURSIVE SkipSlashes(_)
SkipSlashes(s) ==
    IF s # <<>> /\ Head(s) \in {"/", "\\"} THEN SkipSlashes(Tail(s)) ELSE s

\* the path of a special URL: "." and ".." segments are removed
RECURSIVE RemoveDots(_, _)
RemoveDots(segs, acc) ==
    IF segs = <<>> THEN acc
    ELSE LET h    == Head(segs)
             last == Len(segs) = 1
             pop  == IF acc = <<>> THEN <<>> ELSE SubSeq(acc, 1, Len(acc) - 1)
         IN  IF h = DotDot
             THEN RemoveDots(Tail(segs), IF last THEN Append(pop, <<>>) ELSE pop)
             ELSE IF h = Dot
             THEN RemoveDots(Tail(segs), IF last THEN Append(acc, <<>>) ELSE acc)
             ELSE RemoveDots(Tail(segs), Append(acc, h))

UrlPathname(rest) ==
    LET cut   == IndexOfAny(rest, {"?", "#"})
        p     == IF cut = 0 THEN rest ELSE SubSeq(rest, 1, cut - 1)
        slash == [i \in 1..Len(p) |-> IF p[i] = "\\" THEN "/" ELSE p[i]]
    IN  IF slash = <<>> THEN <<"/">>
        ELSE <<"/">> \o JoinSlash(RemoveDots(SplitSlash(Tail(slash)), <<>>))

UrlFail ==
    [ok |-> FALSE, protocol |-> <<>>, hostname |-> <<>>, host |-> <<>>,
     pathname |-> <<>>]

\* new URL(src), with no base: throws (ok = FALSE) unless src is an absolute URL
ParseURL(src) ==
    LET colon == IndexOfAny(src, {":"}) IN
    IF colon = 0 \/ ~SchemeOk(SubSeq(src, 1, colon - 1)) THEN UrlFail
    ELSE
    LET scheme  == ToLower(SubSeq(src, 1, colon - 1))
        rest    == From(src, colon + 1)
        special == scheme \in SpecialSchemes
        hasAuth == special \/ StartsWith(rest, <<"/", "/">>)
        after   == IF special THEN SkipSlashes(rest)
                   ELSE IF hasAuth THEN From(rest, 3) ELSE rest
        stop    == IndexOfAny(after, {"/", "\\", "?", "#"})
        auth    == IF stop = 0 THEN after ELSE SubSeq(after, 1, stop - 1)
        tail    == IF stop = 0 THEN <<>> ELSE From(after, stop)
        pcolon  == LastIndexOf(auth, ":")
        name    == ToLower(IF pcolon = 0 THEN auth ELSE SubSeq(auth, 1, pcolon - 1))
        port    == IF pcolon = 0 THEN <<>> ELSE From(auth, pcolon + 1)
        shown   == IF port = DefaultPort(scheme) THEN <<>> ELSE port
    IN  IF ~hasAuth
        THEN [ok |-> TRUE, protocol |-> scheme \o <<":">>, hostname |-> <<>>,
              host |-> <<>>, pathname |-> rest]
        ELSE IF (special /\ name = <<>>) \/ \E i \in 1..Len(port) : port[i] \notin Digits
        THEN UrlFail
        ELSE [ok |-> TRUE, protocol |-> scheme \o <<":">>, hostname |-> name,
              host |-> IF shown = <<>> THEN name ELSE name \o <<":">> \o shown,
              pathname |-> IF special THEN UrlPathname(tail) ELSE tail]

(***************************************************************************)
(* Image bytes.  A buffer is a record; sharp's output names its input and  *)
(* the options it was made with.                                           *)
(***************************************************************************)
Raw(kind, id) ==
    [kind |-> kind, id |-> id, sharp |-> FALSE, width |-> 0, height |-> 0,
     format |-> <<>>, quality |-> 0]

ImageTypes == {"normal", "avatar"}

\* the two packaged assets, noimage.jpg and noavatar.png
FallbackBytes(type) == Raw("fallback", type)

(***************************************************************************)
(* The result of an asynchronous resolution: how the promise settled, the  *)
(* bytes, and what was done on the way: outbound GETs, calls of            *)
(* readLocalImage, the canonical file read, loads of a fallback asset.     *)
(***************************************************************************)
NoFile == <<<<"-">>>>

Settled(how, b, n, l, r, k) ==
    [called |-> TRUE, outcome |-> how, bytes |-> b, net |-> n, local |-> l,
     read |-> r, fb |-> k]

NoBytes == Raw("none", "none")

\* a loader that knows one asset only, noimage.jpg
LoadFallbackNormal(type, plan, k, n, l, r) ==
    IF plan[k] THEN Settled("resolved", FallbackBytes("normal"), n, l, r, k)
    ELSE Settled("rejected", NoBytes, n, l, r, k)

\* FALLBACKIMAGES[type](), the k-th load of this call; plan[k] tells whether
\* readFile of the asset succeeds.  `again` is what a failure leads to.
LoadFallback(type, plan, k, n, l, r) ==
    IF plan[k] THEN Settled("resolved", FallbackBytes(type), n, l, r, k)
    ELSE Settled("rejected", NoBytes, n, l, r, k)

\* `return await FALLBACKIMAGES[type]()` inside a try whose catch loads the
\* fallback again
LoadFallbackInTry(type, plan, n, l, r) ==
    IF plan[1] THEN Settled("resolved", FallbackBytes(type), n, l, r, 1)
    ELSE LoadFallback(type, plan, 2, n, l, r)

LocalFaults == {"none", "realpath", "stat", "statFile", "readFile"}

\* readLocalImage(filePath, baseDir, type, maxBytes); maxBytes = 0 stands for
\* an absent (or zero) maxBytes, which `if (maxBytes)` skips
ReadLocalImage(f, filePath, baseDir, type, maxBytes, fault, plan) ==
    IF ~IsValidPath(f, baseDir, filePath, fault).result
    THEN LoadFallback(type, plan, 1, 0, 1, NoFile)
    ELSE LET resolvedFile == PathResolve(PathResolve(Cwd, baseDir), filePath)
             target == Realpath(f, resolvedFile)
         IN  IF maxBytes # 0 /\ (fault = "statFile" \/ ~target.ok)
             THEN LoadFallback(type, plan, 1, 0, 1, NoFile)
             ELSE IF maxBytes # 0 /\ f[target.path].size > maxBytes
             THEN LoadFallbackInTry(type, plan, 0, 1, NoFile)
             ELSE IF fault = "readFile" \/ ~target.ok
                     \/ f[target.path].kind # "file"
             THEN LoadFallback(type, plan, 1, 0, 1, NoFile)
             ELSE Settled("resolved", Raw("file", f[target.path].bytes),
                          0, 1, target.path, 0)

(***************************************************************************)
(* The HTTP client.  `net` is what the remote end does: an error of the    *)
(* transport, or a response with a status, a content-type header (<<>>     *)
(* when absent), a body size and the time it takes.                        *)
(***************************************************************************)
C_jpeg == <<"i","m","a","g","e","/","j","p","e","g">>
C_png  == <<"i","m","a","g","e","/","p","n","g">>

\* Object.values(mimeTypes)
AllowedMimeTypes ==
    { C_jpeg, C_png,
      <<"i","m","a","g","e","/","w","e","b","p">>,
      <<"i","m","a","g","e","/","g","i","f">>,
      <<"i","m","a","g","e","/","t","i","f","f">>,
      <<"i","m","a","g","e","/","a","v","i","f">>,
      <<"i","m","a","g","e","/","s","v","g","+","x","m","l">> }

\* axios.get(src, {responseType, timeout, maxContentLength, maxBodyLength,
\* validateStatus}): rejects on a transport error, on a timeout, on a body
\* above the cap and on a status outside 200..299
AxiosGet(net, timeoutMs, maxBytes) ==
    /\ ~net.error
    /\ net.delay <= timeoutMs
    /\ net.size <= maxBytes
    /\ net.status >= 200 /\ net.status < 300

\* the header compared as it was received
ContentTypeRaw(header) == header

\* lines 81-84: toLowerCase, split(";")[0], trim
ContentTypeOf(header) ==
    LET lower == ToLower(header)
        semi  == IndexOfAny(lower, {";"})
    IN  Trim(IF semi = 0 THEN lower ELSE SubSeq(lower, 1, semi - 1))

\* fetchFromNetwork without its catch block: a failed GET rejects
FetchFromNetworkNoCatch(src, type, timeoutMs, maxBytes, net, plan) ==
    IF ~AxiosGet(net, timeoutMs, maxBytes)
    THEN Settled("rejected", NoBytes, 1, 0, NoFile, 0)
    ELSE IF ContentTypeOf(net.ctype) \in AllowedMimeTypes
    THEN Settled("resolved", Raw("http", net.body), 1, 0, NoFile, 0)
    ELSE LoadFallbackInTry(type, plan, 1, 0, NoFile)

\* fetchFromNetwork(src, type, {timeoutMs, maxBytes})
FetchFromNetwork(src, type, timeoutMs, maxBytes, net, plan) ==
    IF ~AxiosGet(net, timeoutMs, maxBytes)
    THEN LoadFallback(type, plan, 1, 1, 0, NoFile)
    ELSE IF ContentTypeOf(net.ctype) \in AllowedMimeTypes
    THEN Settled("resolved", Raw("http", net.body), 1, 0, NoFile, 0)
    ELSE LoadFallbackInTry(type, plan, 1, 0, NoFile)

(***************************************************************************)
(* fetchImage (functions.ts): opts is {timeoutMs, maxBytes}; env is what   *)
(* the world does during the call: the filesystem fault, the remote end    *)
(* and the fallback loads.  A pattern such as /^\/api\/v1\// is kept as *)
(* the literal text it anchors at the start of the path.                   *)
(***************************************************************************)
S_api == <<"/","a","p","i","/","v","1","/">>

\* String.prototype.replace(apiRegex, "")
StripPrefix(s, prefix) ==
    IF StartsWith(s, prefix) THEN From(s, Len(prefix) + 1) ELSE s

S_www == <<"w","w","w",".">>

\* the internal test made on host:port instead of on the hostname
IsInternalHostPort(url, websiteURL) ==
    websiteURL # Undefined /\ url.host \in {websiteURL, S_www \o websiteURL}

\* lines 155-157
IsInternal(url, websiteURL) ==
    websiteURL # Undefined /\ url.hostname \in {websiteURL, S_www \o websiteURL}

\* fetchImage with the test of the protocol left out
FetchImageAnyScheme(f, src, baseDir, websiteURL, type, apiRegex, allowedNetworkList, opts, env) ==
    LET url == ParseURL(src) IN
    IF ~url.ok
    THEN ReadLocalImage(f, src, baseDir, type, opts.maxBytes, env.fault, env.plan)
    ELSE IF IsInternal(url, websiteURL)
    THEN ReadLocalImage(f, StripPrefix(url.pathname, apiRegex), baseDir, type,
                        opts.maxBytes, env.fault, env.plan)
    ELSE IF ~(url.hostname \in allowedNetworkList \/ url.host \in allowedNetworkList)
    THEN LoadFallback(type, env.plan, 1, 0, 0, NoFile)
    ELSE FetchFromNetwork(src, type, opts.timeoutMs, opts.maxBytes, env.net, env.plan)

FetchImage(f, src, baseDir, websiteURL, type, apiRegex, allowedNetworkList, opts, env) ==
    LET url == ParseURL(src) IN
    IF ~url.ok
    THEN ReadLocalImage(f, src, baseDir, type, opts.maxBytes, env.fault, env.plan)
    ELSE IF IsInternal(url, websiteURL)
    THEN ReadLocalImage(f, StripPrefix(url.pathname, apiRegex), baseDir, type,
                        opts.maxBytes, env.fault, env.plan)
    ELSE IF ~(url.hostname \in allowedNetworkList \/ url.host \in allowedNetworkList)
    THEN LoadFallback(type, env.plan, 1, 0, 0, NoFile)
    ELSE IF url.protocol \notin {S_http \o <<":">>, S_https \o <<":">>}
    THEN LoadFallback(type, env.plan, 1, 0, 0, NoFile)
    ELSE FetchFromNetwork(src, type, opts.timeoutMs, opts.maxBytes, env.net, env.plan)

(***************************************************************************)
(* Direct calls of isValidPath: every candidate of at most MaxSegs         *)
(* segments over SegNames, against every base of Bases.                    *)
(***************************************************************************)
SegNames ==
    { <<>>, Dot, DotDot, N_a, N_s, N_l, N_k, N_ddf, <<"m">>,
      <<"a", "NUL">>, <<"a", "SOH">>, <<".", ".", "\\", "a">>,
      <<".", ".", "%", "2", "F", "o">> }

SegSeqs == UNION { [1..n -> SegNames] : n \in 0..MaxSegs }

Candidates == { JoinSlash(q) : q \in SegSeqs }

Bases ==
    { <<>>, <<"/">>, <<"/">> \o N_b, <<"/">> \o N_lb, <<"/">> \o N_f,
      <<"/", "x">>, N_b }

PathInit ==
    /\ fs = InitialFs
    /\ vpIn \in [base : Bases, path : Candidates, fault : Faults]
    /\ vpOut = NotCalled
    /\ fiIn = Null /\ fiOut = NotCalled
    /\ rdIn = Null /\ rdOut = Null
    /\ etIn = Null /\ etOut = Null
    /\ rlIn = Null /\ rlOut = Null
    /\ ServeIdle

CallIsValidPath ==
    /\ ~vpOut.called
    /\ vpOut' = IsValidPath(fs, vpIn.base, vpIn.path, vpIn.fault)
    /\ UNCHANGED <<fs, raceVars, etagVars, renderVars, vpIn, fetchVars, serveVars>>

PathNext == CallIsValidPath

PathSpec == PathInit /\ [][PathNext]_vars

(***************************************************************************)
(* Properties of isValidPath, stated on the filesystem itself.             *)
(***************************************************************************)
IsPrefix(a, b) == Len(a) <= Len(b) /\ SubSeq(b, 1, Len(a)) = a

\* the canonical base and the canonical candidate of the call
CanonBase == Realpath(fs, PathResolve(Cwd, vpIn.base))
CanonCand == Realpath(fs, PathResolve(PathResolve(Cwd, vpIn.base), vpIn.path))

\* the base exists, canonically, and is a directory
BaseIsDir == CanonBase.ok /\ fs[CanonBase.path].kind = "dir"

\* C6: whenever isValidPath returns true, the canonical base exists and is a
\* directory and the canonical candidate is the base or lies beneath it.
C6_ContainmentSound ==
    (vpOut.called /\ vpOut.result = TRUE) =>
        /\ BaseIsDir
        /\ CanonCand.ok
        /\ IsPrefix(CanonBase.path, CanonCand.path)

\* an accepted candidate that goes through a link, under a linked base
C6_Witness ==
    /\ vpOut.called /\ vpOut.result = TRUE
    /\ vpIn.base = <<"/">> \o N_lb
    /\ vpIn.path = N_k \o <<"/">> \o N_a

\* a segment that is "..", or ".." followed by a backslash or by %2F
TraversalSeg(seg) ==
    \/ seg = DotDot
    \/ StartsWith(seg, <<".", ".", "\\">>)
    \/ StartsWith(seg, <<".", ".", "%", "2", "F">>)

HasTraversal(p) ==
    LET q == SplitSlash(p) IN \E i \in 1..Len(q) : TraversalSeg(q[i])

\* C7: isValidPath returns false for every candidate that has a ".." segment
\* (or its URL-encoded or backslash form) or is absolute.
C7_RejectsEveryDotDot ==
    (vpOut.called /\ (HasTraversal(vpIn.path) \/ PathIsAbsolute(vpIn.path)))
        => vpOut.result = FALSE

\* realpath that keeps the names after the last existing one as they are:
\* where a path that does not exist yet would be
RECURSIVE WouldBeWalk(_, _, _, _)
WouldBeWalk(f, cur, rest, fuel) ==
    IF rest = <<>> THEN [ok |-> TRUE, path |-> cur]
    ELSE LET nxt == Append(cur, Head(rest)) IN
         IF nxt \notin DOMAIN f THEN [ok |-> TRUE, path |-> cur \o rest]
         ELSE IF f[nxt].kind = "link"
              THEN IF fuel = 0 THEN Fail
                   ELSE WouldBeWalk(f, <<>>, f[nxt].target \o Tail(rest), fuel - 1)
              ELSE WouldBeWalk(f, nxt, Tail(rest), fuel)

WouldBeCand ==
    WouldBeWalk(fs, <<>>, PathResolve(PathResolve(Cwd, vpIn.base), vpIn.path),
                MaxLinks)

StrictlyBeneath(a, b) == IsPrefix(a, b) /\ a # b

FirstBeneath == CanonCand.path[Len(CanonBase.path) + 1]

C9_NeverThrows ==
    vpOut.called =>
        /\ ~vpOut.threw
        /\ vpOut.result \in BOOLEAN
        /\ ( \/ vpIn.base = <<>> \/ vpIn.path = <<>>
             \/ \E i \in 1..Len(vpIn.path) : vpIn.path[i] \in ControlChars
             \/ PathIsAbsolute(vpIn.path) )
              => (vpOut.result = FALSE /\ ~vpOut.fsTouched)
        /\ (vpIn.fault # "none" \/ ~CanonBase.ok \/ ~CanonCand.ok)
              => vpOut.result = FALSE

\* a filesystem failure on a candidate that would otherwise be accepted
C9_Witness ==
    /\ vpOut.called /\ vpOut.result = FALSE /\ vpOut.fsTouched
    /\ vpIn.fault = "realpath"
    /\ vpIn.base = <<"/">> \o N_b /\ vpIn.path = N_a

(***************************************************************************)
(* Direct calls of fetchImage.                                             *)
(***************************************************************************)
Sep  == <<":", "/", "/">>
H_ok == <<"o", "k">>
H_no == <<"n", "o">>
H_me == <<"m", "e">>
Port8 == <<":", "8">>

Src_httpfoo  == S_http \o <<"f", "o", "o">>
Src_ok       == S_http \o Sep \o H_ok \o <<"/">> \o N_a
Src_okPort   == S_https \o Sep \o H_ok \o Port8 \o <<"/">> \o N_a
Src_okUpper  == <<"H","T","T","P">> \o Sep \o H_ok \o <<"/">> \o N_a
Src_okFtp    == S_ftp \o Sep \o H_ok \o <<"/">> \o N_a
Src_okHttpx  == S_http \o <<"x">> \o Sep \o H_ok \o <<"/">> \o N_a
Src_no       == S_http \o Sep \o H_no \o <<"/">> \o N_a
Src_me       == S_http \o Sep \o H_me \o S_api \o N_a
Src_wwwMe    == S_https \o Sep \o S_www \o H_me \o Port8 \o S_api \o N_big
Src_meNoApi  == S_http \o Sep \o H_me \o <<"/">> \o N_a
Src_meLink   == S_http \o Sep \o H_me \o S_api \o N_l \o <<"/">> \o N_a
Src_colons   == <<":", ":", ":", ":">>
Src_noHost   == S_http \o Sep
Src_escape   == N_l \o <<"/">> \o N_a

UrlSources ==
    { Src_ok, Src_okPort, Src_okUpper, Src_okFtp, Src_okHttpx, Src_no,
      Src_me, Src_wwwMe, Src_meNoApi, Src_meLink }

PathSources ==
    { N_a, <<"m">>, N_big, Src_escape, Dot, Src_httpfoo, Src_colons, Src_noHost }

FetchSources == UrlSources \cup PathSources \cup {<<>>}

Net(err, delay, size, status, ctype) ==
    [error |-> err, delay |-> delay, size |-> size, status |-> status,
     ctype |-> ctype, body |-> "net_img"]

C_pngParam == <<"I","M","A","G","E","/","P","N","G",";"," ","q","=","1">>
C_html     == <<"t","e","x","t","/","h","t","m","l">>
C_jpegPad  == <<" ","I","m","a","g","e","/","J","P","E","G"," ",";","a">>

\* what the remote end may do; the time limit of the calls is 5, the size
\* cap 2 (or 0)
NetOutcomes ==
    { Net(FALSE, 1, 1, 200, C_jpeg),
      Net(FALSE, 1, 1, 200, C_pngParam),
      Net(FALSE, 1, 1, 200, C_jpegPad),
      Net(FALSE, 1, 1, 200, C_html),
      Net(FALSE, 1, 1, 200, <<>>),
      Net(FALSE, 1, 1, 404, C_jpeg),
      Net(FALSE, 9, 1, 200, C_jpeg),
      Net(FALSE, 1, 3, 200, C_jpeg),
      Net(TRUE,  1, 1, 200, C_jpeg) }

\* whether the first and the second load of a fallback asset succeed
FbPlans == [1..2 -> BOOLEAN]

BaseDirStr == <<"/">> \o N_b

\* websiteURL in its full-URL form, https://me
W_full == S_https \o Sep \o H_me

FetchInit ==
    /\ fs = InitialFs
    /\ vpIn = Null /\ vpOut = NotCalled
    /\ fiIn \in [ src : FetchSources, websiteURL : {Undefined, H_me, W_full},
                  type : ImageTypes,
                  allowed : {{}, {H_ok}, {H_ok \o Port8}, {H_me, S_www \o H_me}},
                  opts : [timeoutMs : {5}, maxBytes : {0, 2}],
                  env : [fault : LocalFaults, net : NetOutcomes, plan : FbPlans] ]
    /\ fiOut = NotCalled
    /\ rdIn = Null /\ rdOut = Null
    /\ etIn = Null /\ etOut = Null
    /\ rlIn = Null /\ rlOut = Null
    /\ ServeIdle

CallFetchImage ==
    /\ ~fiOut.called
    /\ fiOut' = FetchImage(fs, fiIn.src, BaseDirStr, fiIn.websiteURL, fiIn.type,
                           S_api, fiIn.allowed, fiIn.opts, fiIn.env)
    /\ UNCHANGED <<fs, raceVars, etagVars, renderVars, pathVars, fiIn, serveVars>>

FetchNext == CallFetchImage

FetchSpec == FetchInit /\ [][FetchNext]_vars

(***************************************************************************)
(* Properties of fetchImage.                                               *)
(***************************************************************************)
RealOrFallback(b, type) ==
    b = FallbackBytes(type) \/ b.kind \in {"file", "http"}

\* C5 as stated: whatever fails, the fallback loader included, the promise
\* of fetchImage resolves to the source bytes or to the fallback bytes.
C5_AlwaysResolves ==
    fiOut.called =>
        (fiOut.outcome = "resolved" /\ RealOrFallback(fiOut.bytes, fiIn.type))

\* C5, amended: whatever the filesystem and the HTTP client do, the promise
\* resolves to the source bytes or to the fallback bytes of the category as
\* long as the fallback asset can be loaded; it rejects exactly when the
\* last load of the fallback asset it made failed.
C5_ResolvesUnlessFallbackUnreadable ==
    fiOut.called =>
        /\ fiOut.outcome \in {"resolved", "rejected"}
        /\ fiOut.outcome = "resolved" => RealOrFallback(fiOut.bytes, fiIn.type)
        /\ (\A k \in 1..2 : fiIn.env.plan[k]) => fiOut.outcome = "resolved"
        /\ fiOut.outcome = "rejected" <=> (fiOut.fb > 0 /\ ~fiIn.env.plan[fiOut.fb])

\* a transport error on an allowed host, answered with the avatar fallback
C5_Witness ==
    /\ fiOut.called /\ fiOut.outcome = "resolved" /\ fiOut.net = 1
    /\ fiIn.env.net.error /\ fiIn.type = "avatar"
    /\ fiOut.bytes = FallbackBytes("avatar")

FiUrl == ParseURL(fiIn.src)

FiListed == FiUrl.hostname \in fiIn.allowed \/ FiUrl.host \in fiIn.allowed

NoNum  == [given |-> FALSE, value |-> 0]
Num(n) == [given |-> TRUE, value |-> n]

F_jpeg == <<"j","p","e","g">>
F_png  == <<"p","n","g">>

\* allowedFormats
AllowedFormats ==
    { F_jpeg, <<"j","p","g">>, F_png, <<"w","e","b","p">>, <<"g","i","f">>,
      <<"t","i","f","f">>, <<"a","v","i","f">>, <<"s","v","g">> }

F_gif  == <<"g","i","f">>

\* mimeTypes[format], for the formats of this model
MimeOf(format) ==
    IF format = F_png THEN C_png
    ELSE IF format = F_gif THEN <<"i","m","a","g","e","/","g","i","f">>
    ELSE C_jpeg

\* the default of src, schema.ts line 13
S_placeholder ==
    <<"/","p","l","a","c","e","h","o","l","d","e","r","/",
      "n","o","i","m","a","g","e",".","j","p","g">>

\* z.number().int().min(lo).max(hi).optional()
NumOk(n, lo, hi) == ~n.given \/ (n.value >= lo /\ n.value <= hi)

\* userDataSchema without .strict(): unrecognized fields are let through
UserDataValidLoose(q) ==
    /\ q.src # <<>>
    /\ NumOk(q.width, 50, 4000) /\ NumOk(q.height, 50, 4000)
    /\ NumOk(q.quality, 1, 100)
    /\ q.folder \in {"public", "private"}
    /\ q.type \in ImageTypes
    /\ (q.userId = Undefined \/ (Trim(q.userId) # <<>> /\ Len(Trim(q.userId)) <= 128))

\* userDataSchema.parse succeeds
UserDataValid(q) ==
    /\ q.src # <<>>                       \* .min(1); Undefined is an absent src
    /\ NumOk(q.width, 50, 4000) /\ NumOk(q.height, 50, 4000)
    /\ NumOk(q.quality, 1, 100)
    /\ q.folder \in {"public", "private"}
    /\ q.type \in ImageTypes
    /\ (q.userId = Undefined \/ (Trim(q.userId) # <<>> /\ Len(Trim(q.userId)) <= 128))
    /\ ~q.extra

\* the default of quality in userDataSchema, which leaves nothing for
\* `parsed.quality ?? bounds.defaultQuality` to fill in
SchemaQuality == 80

\* a clamp that applies the lower bound only
ClampLowerOnly(n, lo, hi) ==
    IF ~n.given THEN NoNum ELSE Num(IF n.value > lo THEN n.value ELSE lo)

\* a clamp that applies the upper bound only
ClampUpperOnly(n, lo, hi) ==
    IF ~n.given THEN NoNum ELSE Num(IF n.value < hi THEN n.value ELSE hi)

\* clamp: Math.min(Math.max(value, min), max)
Clamp(n, lo, hi) ==
    IF ~n.given THEN NoNum
    ELSE Num(IF (IF n.value > lo THEN n.value ELSE lo) < hi
             THEN (IF n.value > lo THEN n.value ELSE lo) ELSE hi)

\* renderUserData(query, bounds) for a query that is valid
RenderUserData(q, bounds) ==
    [ src     |-> IF q.src = Undefined THEN S_placeholder ELSE q.src,
      format  |-> IF q.format # Undefined /\ ToLower(q.format) \in AllowedFormats
                  THEN ToLower(q.format) ELSE F_jpeg,
      width   |-> Clamp(q.width, bounds.minWidth, bounds.maxWidth),
      height  |-> Clamp(q.height, bounds.minHeight, bounds.maxHeight),
      quality |-> IF q.quality.given THEN q.quality.value ELSE SchemaQuality,
      folder  |-> q.folder,
      type    |-> q.type,
      userId  |-> IF q.userId = Undefined THEN Undefined ELSE Trim(q.userId) ]

(***************************************************************************)
(* node:path basename and extname.                                         *)
(***************************************************************************)
RECURSIVE DropTrailingSlashes(_)
DropTrailingSlashes(s) ==
    IF Len(s) > 1 /\ s[Len(s)] = "/"
    THEN DropTrailingSlashes(SubSeq(s, 1, Len(s) - 1)) ELSE s

LastSeg(p) ==
    LET q == DropTrailingSlashes(p) IN From(q, LastIndexOf(q, "/") + 1)

\* path.extname
PathExtname(p) ==
    LET b == LastSeg(p)
        i == LastIndexOf(b, ".")
    IN  IF i <= 1 \/ b = DotDot THEN <<>> ELSE From(b, i)

\* path.basename(p, ext)
PathBasename(p, ext) ==
    LET b == LastSeg(p) IN
    IF ext # <<>> /\ b # ext /\ Len(b) > Len(ext)
       /\ From(b, Len(b) - Len(ext) + 1) = ext
    THEN SubSeq(b, 1, Len(b) - Len(ext)) ELSE b

(***************************************************************************)
(* sharp, and the hash of the ETag.                                        *)
(***************************************************************************)
\* sharp(buffer).resize(...).rotate().toFormat(format, {quality}).toBuffer()
\* when it succeeds; the resize is applied only when a dimension was asked
OutputFormat(userData) ==
    IF ToLower(userData.format) \in AllowedFormats THEN userData.format ELSE F_jpeg

\* the output formats whose encoder in sharp takes the `quality` option of
\* toFormat (line 108); the gif encoder has none, and the README names the
\* quality as that of JPEG/WebP/AVIF
QualityFormats ==
    { F_jpeg, <<"j","p","g">>, F_png, <<"w","e","b","p">>, <<"t","i","f","f">>,
      <<"a","v","i","f">> }

Processed(buf, userData, outputFormat) ==
    [ buf EXCEPT !.sharp   = TRUE,
                 !.width   = userData.width.value,
                 !.height  = userData.height.value,
                 !.format  = outputFormat,
                 !.quality = IF outputFormat \in QualityFormats
                             THEN userData.quality ELSE 0 ]

\* an ETag made of the kind of the source instead of the processed bytes
EtagOfSourceKind(bytes) == [quoted |-> TRUE, sha1 |-> bytes.kind]

\* `"${createHash("sha1").update(processedImage).digest("hex")}"`
EtagOf(bytes) == [quoted |-> TRUE, sha1 |-> bytes]

NoEtag == [quoted |-> FALSE, sha1 |-> NoBytes]

\* res.setHeader throws ERR_INVALID_CHAR on a control character
HeaderValueOk(v) == \A i \in 1..Len(v) : v[i] \notin ControlChars

(***************************************************************************)
(* serveImage (pixel.ts), one request.                                     *)
(***************************************************************************)
UserDir == <<"/">> \o N_b \o <<"/">> \o N_s

\* idHandler of the configuration, when there is one
IdHandler(id) == <<"p", "-">> \o id

NoResponse ==
    [ status |-> 0, type |-> <<>>, disposition |-> <<>>, cacheControl |-> "",
      etag |-> NoEtag, length |-> NoBytes, body |-> NoBytes ]

NoLocals ==
    [ parsed |-> FALSE, userData |-> Null, baseDir |-> <<>>, parsedUserId |-> Undefined,
      imageBuffer |-> NoBytes, processedImage |-> NoBytes,
      etag |-> NoEtag, failed |-> "none" ]

NoLog == [net |-> 0, local |-> 0, read |-> NoFile, fb |-> 0, folderCalls |-> 0,
          folderArg |-> Undefined, route |-> "none", catchLoad |-> "none"]

S_inlinePrefix == <<"i","n","l","i","n","e",";"," ","f","i","l","e","n","a","m","e","=","\"">>

\* `inline; filename="${name}"`
Disposition(name) == S_inlinePrefix \o name \o <<"\"">>

S_fallbackName == <<"f","a","l","l","b","a","c","k",".","j","p","e","g">>

DefaultCacheControl == "public, max-age=86400, stale-while-revalidate=604800"

\* the bounds and the quality that renderOptions hands to renderUserData
\* typeof of an optional callback of the options
NoFn  == "undefined"
Fn    == "function"
NotFn == "string"

\* z.string().regex(/^[\w.-]+$/)
HostLike(w) ==
    w # <<>> /\ \A i \in 1..Len(w) : IsAlpha(w[i]) \/ w[i] \in Digits \cup {"_", ".", "-"}

\* optionsSchema.parse succeeds, schema.ts lines 77-103
OptionsValid(c) ==
    /\ c.baseDir # <<>>
    /\ c.idHandler \in {NoFn, Fn}
    /\ c.getUserFolder \in {NoFn, Fn}
    /\ (c.websiteURL = Undefined \/ HostLike(c.websiteURL) \/ ParseURL(c.websiteURL).ok)
    /\ c.minWidth > 0 /\ c.maxWidth > 0 /\ c.minHeight > 0 /\ c.maxHeight > 0
    /\ c.defaultQuality >= 1 /\ c.defaultQuality <= 100
    /\ c.requestTimeoutMs > 0 /\ c.maxDownloadBytes > 0

\* renderOptions: throws, or returns the options (the defaults of the schema
\* are the values that Options gives to the fields a caller leaves out)
RenderOptions(c) == [threw |-> ~OptionsValid(c), options |-> c]

BoundsOf(c) ==
    [ minWidth |-> c.minWidth, maxWidth |-> c.maxWidth,
      minHeight |-> c.minHeight, maxHeight |-> c.maxHeight,
      defaultQuality |-> c.defaultQuality ]

\* lines 41-57: renderOptions, renderUserData, idHandler
ParseParams ==
    /\ pc = "start"
    /\ IF RenderOptions(cfg).threw
       THEN /\ pc' = "catch"
            /\ loc' = [loc EXCEPT !.failed = "options"]
       ELSE IF ~UserDataValid(req.query)
       THEN /\ pc' = "catch"
            /\ loc' = [loc EXCEPT !.failed = "parse"]
       ELSE LET userData == RenderUserData(req.query, BoundsOf(cfg)) IN
            /\ loc' = [ loc EXCEPT
                   !.parsed = TRUE,
                   !.userData = userData,
                   !.baseDir = cfg.baseDir,
                   !.parsedUserId =
                       IF userData.userId = Undefined THEN Undefined
                       ELSE IF cfg.idHandler = Fn THEN IdHandler(userData.userId)
                       ELSE userData.userId ]
            /\ pc' = "authorize"
    /\ UNCHANGED <<fs, raceVars, etagVars, renderVars, pathVars, fetchVars, cfg, req, cb, res, sent, log, world>>

\* lines 59-60: the call of getUserFolder, which throws or returns a value or
\* a promise that serveImage awaits
AuthorizeFolder ==
    /\ pc = "authorize"
    /\ IF loc.userData.folder = "private" /\ cfg.getUserFolder = Fn
       THEN \E threw \in BOOLEAN :
              /\ pc' = IF threw THEN "catch" ELSE "awaitFolder"
              /\ cb' = IF threw THEN cb ELSE [state |-> "pending", dir |-> <<>>]
              /\ loc' = [loc EXCEPT !.failed = IF threw THEN "folder" ELSE @]
              /\ log' = [log EXCEPT !.folderCalls = @ + 1,
                                    !.folderArg = loc.parsedUserId]
       ELSE /\ pc' = "resolve"
            /\ UNCHANGED <<cb, log, loc>>
    /\ UNCHANGED <<fs, raceVars, etagVars, renderVars, pathVars, fetchVars, cfg, req, res, sent, world>>

\* the callback's promise settles: with a folder, with "", or rejected.  The
\* callback is not bound to ever do so.
FolderSettles ==
    /\ cb.state = "pending"
    /\ \E out \in { [state |-> "fulfilled", dir |-> UserDir],
                    [state |-> "fulfilled", dir |-> <<>>],
                    [state |-> "rejected",  dir |-> <<>>] } : cb' = out
    /\ UNCHANGED <<fs, raceVars, etagVars, renderVars, pathVars, fetchVars, cfg, req, pc, loc, res, sent, log, world>>

\* the returned path taken as the base directory even when it is empty
BaseDirAlwaysReplaced(baseDir, dir) == dir

\* lines 61-63: `if (dir) { baseDir = dir; }`
BaseDirAfter(baseDir, dir) == IF dir # <<>> THEN dir ELSE baseDir

\* lines 60-63: the await ends when the promise has settled
FolderResume ==
    /\ pc = "awaitFolder"
    /\ cb.state \in {"fulfilled", "rejected"}
    /\ IF cb.state = "rejected"
       THEN /\ pc' = "catch"
            /\ loc' = [loc EXCEPT !.failed = "folder"]
       ELSE /\ pc' = "resolve"
            /\ loc' = [loc EXCEPT !.baseDir = BaseDirAfter(@, cb.dir)]
    /\ UNCHANGED <<fs, raceVars, etagVars, renderVars, pathVars, fetchVars, cfg, req, cb, res, sent, log, world>>

\* what the filesystem and the network may do while a source is resolved
ResolveEnvs ==
    [ decided : {TRUE},
      fault : {"none", "readFile"},
      net : { Net(FALSE, 1, 1, 200, C_jpeg), Net(FALSE, 1, 1, 200, C_html),
              Net(TRUE, 1, 1, 200, C_jpeg) },
      plan : FbPlans ]

WorldIdle == [decided |-> FALSE]

\* the filesystem and the remote end settle what the calls of resolveBuffer
\* will meet: every one of them returns or fails (the GET has a time limit)
WorldDecides ==
    /\ pc = "resolve" /\ ~world.decided
    /\ world' \in ResolveEnvs
    /\ UNCHANGED <<fs, raceVars, etagVars, renderVars, pathVars, fetchVars, cfg, req, pc, loc, cb, res, sent, log>>

\* a classification of the source by whether it parses as an absolute URL
ClassifiesByUrlParsing(userData) == ParseURL(userData.src).ok

\* line 76: the source is handed to fetchImage when it begins with "http"
TakesUrlRoute(userData) == StartsWith(userData.src, S_http)

\* resolveBuffer, lines 72-91
ResolveBuffer(f, userData, baseDir, c, env) ==
    IF userData.src = <<>>
    THEN LoadFallback(userData.type, env.plan, 1, 0, 0, NoFile)
    ELSE IF TakesUrlRoute(userData)
    THEN FetchImage(f, userData.src, baseDir, c.websiteURL, userData.type,
                    c.apiRegex, c.allowedNetworkList,
                    [timeoutMs |-> c.requestTimeoutMs, maxBytes |-> c.maxDownloadBytes],
                    env)
    ELSE ReadLocalImage(f, userData.src, baseDir, userData.type, 0,
                        env.fault, env.plan)

\* line 93: await resolveBuffer()
ResolveSource ==
    /\ pc = "resolve" /\ world.decided
    /\ \E r \in {ResolveBuffer(fs, loc.userData, loc.baseDir, cfg, world)} :
         /\ pc' = IF r.outcome = "rejected" THEN "catch" ELSE "transform"
         /\ loc' = [loc EXCEPT !.imageBuffer = r.bytes,
                               !.failed = IF r.outcome = "rejected" THEN "resolve" ELSE @]
         /\ log' = [log EXCEPT !.net = r.net, !.local = r.local,
                               !.read = r.read, !.fb = r.fb,
                               !.route = IF TakesUrlRoute(loc.userData)
                                         THEN "fetchImage" ELSE "readLocalImage"]
         /\ world' = WorldIdle
    /\ UNCHANGED <<fs, raceVars, etagVars, renderVars, pathVars, fetchVars, cfg, req, cb, res, sent>>

\* lines 94-111: sharp; the codec may fail on any input
Transform ==
    /\ pc = "transform"
    /\ \E ok \in BOOLEAN :
         IF ok
         THEN /\ loc' = [loc EXCEPT !.processedImage =
                            Processed(loc.imageBuffer, loc.userData,
                                      OutputFormat(loc.userData))]
              /\ pc' = "headers"
         ELSE /\ pc' = "catch"
              /\ loc' = [loc EXCEPT !.failed = "transform"]
    /\ UNCHANGED <<fs, raceVars, etagVars, renderVars, pathVars, fetchVars, cfg, req, cb, res, sent, log, world>>

\* serveImage going on to the headers and res.send after res.status(304).end()
After304FallsThrough == "respond"

\* where serveImage goes on after res.status(304).end(): `return`, line 124
After304 == "done"

\* lines 113-125: the file name, the ETag and the conditional request
\* a 304 for every request that carries an If-None-Match header
NotModifiedAnyHeader(etag, header) == etag.quoted /\ header # NoEtag

\* line 122: `etag && req.headers["if-none-match"] === etag`
NotModified(etag, header) == etag.quoted /\ header = etag

ComputeHeaders ==
    /\ pc = "headers"
    /\ LET etag == IF cfg.etag THEN EtagOf(loc.processedImage) ELSE NoEtag IN
       /\ loc' = [loc EXCEPT !.etag = etag]
       /\ IF NotModified(etag, req.ifNoneMatch)
          THEN /\ res' = [res EXCEPT !.status = 304]
               /\ sent' = Append(sent, "end")
               /\ pc' = After304
          ELSE /\ pc' = "respond"
               /\ UNCHANGED <<res, sent>>
    /\ UNCHANGED <<fs, raceVars, etagVars, renderVars, pathVars, fetchVars, cfg, req, cb, log, world>>

\* lines 113-116
ProcessedFileName(userData, outputFormat) ==
    PathBasename(userData.src, PathExtname(userData.src)) \o <<".">> \o outputFormat

\* lines 127-141: the headers and res.send
Respond ==
    /\ pc = "respond"
    /\ LET outputFormat == OutputFormat(loc.userData)
           disposition == Disposition(ProcessedFileName(loc.userData, outputFormat))
       IN
       IF ~HeaderValueOk(disposition)
       THEN /\ res' = [res EXCEPT !.type = MimeOf(outputFormat)]
            /\ loc' = [loc EXCEPT !.failed = "header"]
            /\ pc' = "catch"
            /\ UNCHANGED sent
       ELSE /\ res' = [ res EXCEPT
                        !.status = IF @ = 0 THEN 200 ELSE @,
                        !.type = MimeOf(outputFormat),
                        !.disposition = disposition,
                        !.cacheControl = IF cfg.cacheControl.given
                                         THEN cfg.cacheControl.value
                                         ELSE DefaultCacheControl,
                        !.etag = loc.etag,
                        !.length = loc.processedImage,
                        !.body = loc.processedImage ]
            /\ sent' = Append(sent, "send")
            /\ pc' = "done"
            /\ UNCHANGED loc
    /\ UNCHANGED <<fs, raceVars, etagVars, renderVars, pathVars, fetchVars, cfg, req, cb, log, world>>

\* the fallback that the catch block loads, line 145
CatchFallbackType(userData) == "normal"

\* lines 143-153: the catch block
\* a catch block that hands every error to next
CatchAlwaysNext(loaded) == "next"

\* lines 144-152: res.send(fallback) when FALLBACKIMAGES.normal() resolved,
\* next(fallbackError) when it rejected
CatchOutcome(loaded) == IF loaded THEN "send" ELSE "next"

Fallback ==
    /\ pc = "catch"
    /\ \E loaded \in BOOLEAN :
       /\ log' = [log EXCEPT !.fb = @ + 1,
                             !.catchLoad = IF loaded THEN "ok" ELSE "failed"]
       /\ IF CatchOutcome(loaded) = "send"
         THEN /\ res' = [ res EXCEPT
                     !.status = IF @ = 0 THEN 200 ELSE @,
                     !.type = C_jpeg,
                     !.disposition = Disposition(S_fallbackName),
                     !.cacheControl = "public, max-age=60",
                     !.body = FallbackBytes(CatchFallbackType(loc.userData)) ]
              /\ sent' = Append(sent, "send")
         ELSE /\ res' = [res EXCEPT !.status = 500]
              /\ sent' = Append(sent, "next")
    /\ pc' = "done"
    /\ UNCHANGED <<fs, raceVars, etagVars, renderVars, pathVars, fetchVars, cfg, req, loc, cb, world>>

(***************************************************************************)
(* Requests to the middleware.                                             *)
(***************************************************************************)
NoCacheControl == [given |-> FALSE, value |-> ""]

\* optionsSchema.parse of a configuration that leaves the rest to the defaults
Options(getUserFolder, idHandler, websiteURL, allowed, etag, cacheControl) ==
    [ baseDir |-> BaseDirStr, idHandler |-> idHandler, getUserFolder |-> getUserFolder,
      websiteURL |-> websiteURL, apiRegex |-> S_api, allowedNetworkList |-> allowed,
      cacheControl |-> cacheControl, etag |-> etag,
      minWidth |-> 50, maxWidth |-> 4000, minHeight |-> 50, maxHeight |-> 4000,
      defaultQuality |-> 80, requestTimeoutMs |-> 5, maxDownloadBytes |-> 2 ]

Configs ==
    { Options(NoFn, NoFn, Undefined, {H_ok}, TRUE, NoCacheControl),
      Options(Fn, Fn, H_me, {}, TRUE, NoCacheControl),
      [ Options(Fn, NoFn, Undefined, {H_ok}, FALSE,
                [given |-> TRUE, value |-> "no-store"])
        EXCEPT !.minWidth = 100, !.maxWidth = 500,
               !.minHeight = 100, !.maxHeight = 500 ],
      [ Options(NoFn, NoFn, Undefined, {}, TRUE, NoCacheControl)
        EXCEPT !.baseDir = <<>> ],
      Options(NoFn, NotFn, Undefined, {}, TRUE, NoCacheControl) }

(***************************************************************************)
(* Direct calls of renderOptions and renderUserData (renders.ts), as       *)
(* serveImage makes them in lines 41-48: the options, then the query       *)
(* against the bounds of the parsed options.                               *)
(***************************************************************************)
BaseQuery ==
    [ src |-> N_a, format |-> Undefined, width |-> NoNum, height |-> NoNum,
      quality |-> NoNum, folder |-> "public", type |-> "normal",
      userId |-> Undefined, extra |-> FALSE ]

RenderWidths ==
    { NoNum, Num(10), Num(49), Num(50), Num(60), Num(300), Num(1000), Num(4000),
      Num(4001) }

RenderHeights == { NoNum, Num(10), Num(60), Num(1000), Num(4000) }

RenderQualities == { NoNum, Num(0), Num(1), Num(55), Num(100), Num(101) }

RenderQueries ==
    { [BaseQuery EXCEPT !.width = w, !.height = h, !.quality = q] :
        w \in RenderWidths, h \in RenderHeights, q \in RenderQualities }

RenderConfigs ==
    { [ Options(NoFn, NoFn, Undefined, {}, TRUE, NoCacheControl)
        EXCEPT !.baseDir = b, !.minWidth = lw[1], !.maxWidth = lw[2],
               !.minHeight = lh[1], !.maxHeight = lh[2], !.defaultQuality = dq ] :
        b \in {BaseDirStr, <<>>},
        lw \in {<<50, 4000>>, <<100, 500>>, <<300, 300>>, <<600, 500>>, <<0, 500>>},
        lh \in {<<50, 4000>>, <<100, 500>>, <<600, 500>>},
        dq \in {0, 1, 60, 80, 100, 101} }

NoUserData ==
    [ src |-> <<>>, format |-> <<>>, width |-> NoNum, height |-> NoNum,
      quality |-> 0, folder |-> "", type |-> "", userId |-> Undefined ]

RenderInit ==
    /\ fs = InitialFs
    /\ vpIn = Null /\ vpOut = NotCalled
    /\ fiIn = Null /\ fiOut = NotCalled
    /\ rdIn \in [options : RenderConfigs, query : RenderQueries]
    /\ rdOut = [ step |-> "start", optionsThrew |-> FALSE, userDataThrew |-> FALSE,
                 userData |-> NoUserData ]
    /\ etIn = Null /\ etOut = Null
    /\ rlIn = Null /\ rlOut = Null
    /\ ServeIdle

\* pixel.ts line 41
CallRenderOptions ==
    /\ rdOut.step = "start"
    /\ rdOut' = [ rdOut EXCEPT
                    !.step = IF RenderOptions(rdIn.options).threw
                             THEN "done" ELSE "options",
                    !.optionsThrew = RenderOptions(rdIn.options).threw ]
    /\ UNCHANGED <<fs, raceVars, etagVars, pathVars, fetchVars, rdIn, serveVars>>

\* pixel.ts lines 42-48
CallRenderUserData ==
    /\ rdOut.step = "options"
    /\ rdOut' = [ rdOut EXCEPT
                    !.step = "done",
                    !.userDataThrew = ~UserDataValid(rdIn.query),
                    !.userData =
                        IF UserDataValid(rdIn.query)
                        THEN RenderUserData(rdIn.query,
                                            BoundsOf(RenderOptions(rdIn.options).options))
                        ELSE NoUserData ]
    /\ UNCHANGED <<fs, raceVars, etagVars, pathVars, fetchVars, rdIn, serveVars>>

RenderNext == CallRenderOptions \/ CallRenderUserData

RenderSpec == RenderInit /\ [][RenderNext]_vars

(***************************************************************************)
(* Two runs of the transform and of the ETag (pixel.ts 42-48, 66-70,       *)
(* 93-120) on a pair of queries and source buffers.                        *)
(***************************************************************************)
EtagQueries ==
    { [BaseQuery EXCEPT !.format = f, !.quality = q, !.width = w] :
        f \in {Undefined, <<"P","N","G">>, F_gif},
        q \in {NoNum, Num(20), Num(80), Num(95)},
        w \in {NoNum, Num(100)} }

EtagRuns ==
    [ query : EtagQueries,
      source : {Raw("file", "img_a"), FallbackBytes("normal")},
      etag : BOOLEAN ]

NotRun == [done |-> FALSE, userData |-> NoUserData, processedImage |-> NoBytes,
           etag |-> NoEtag]

\* one run: the parsed query, the processed bytes and the ETag
ServeOnce(run) ==
    LET userData == RenderUserData(run.query,
                        BoundsOf(Options(NoFn, NoFn, Undefined, {}, TRUE, NoCacheControl)))
        processedImage == Processed(run.source, userData, OutputFormat(userData))
    IN  [ done |-> TRUE, userData |-> userData, processedImage |-> processedImage,
          etag |-> IF run.etag THEN EtagOf(processedImage) ELSE NoEtag ]

EtagInit ==
    /\ fs = InitialFs
    /\ vpIn = Null /\ vpOut = NotCalled
    /\ fiIn = Null /\ fiOut = NotCalled
    /\ rdIn = Null /\ rdOut = Null
    /\ etIn \in [first : EtagRuns, second : EtagRuns]
    /\ etOut = [first |-> NotRun, second |-> NotRun]
    /\ rlIn = Null /\ rlOut = Null
    /\ ServeIdle

RunFirst ==
    /\ ~etOut.first.done
    /\ etOut' = [etOut EXCEPT !.first = ServeOnce(etIn.first)]
    /\ UNCHANGED <<fs, raceVars, pathVars, fetchVars, renderVars, etIn, serveVars>>

RunSecond ==
    /\ ~etOut.second.done
    /\ etOut' = [etOut EXCEPT !.second = ServeOnce(etIn.second)]
    /\ UNCHANGED <<fs, raceVars, pathVars, fetchVars, renderVars, etIn, serveVars>>

EtagNext == RunFirst \/ RunSecond

EtagSpec == EtagInit /\ [][EtagNext]_vars

(***************************************************************************)
(* readLocalImage, one await at a time, next to a filesystem that other    *)
(* processes change: between `await isValidPath`, `await fs.stat` and      *)
(* `await fs.readFile` the event loop yields, and the operating system     *)
(* resolves resolvedFile anew at each call.                                *)
(***************************************************************************)
\* how many changes the other processes make during one call
MaxSwaps == 2

\* the names below the image directory that are replaced
SwapPaths == { <<N_b, N_a>>, <<N_b, N_s>>, <<N_b, N_k>> }

\* what a name is replaced with: links that leave the image directory, a
\* link that stays inside, a new image
SwapNodes ==
    { Link(<<N_o, N_a>>), Link(<<N_o>>), Link(<<N_b, N_s, N_a>>),
      File("img_new", 1) }

RacePaths ==
    { N_a, JoinSlash(<<N_s, N_a>>), JoinSlash(<<N_k, N_a>>),
      JoinSlash(<<N_l, N_a>>), <<"m">>, N_big }

Pending == Settled("pending", NoBytes, 0, 0, NoFile, 0)

RaceInit ==
    /\ fs = InitialFs
    /\ vpIn = Null /\ vpOut = NotCalled
    /\ fiIn = Null /\ fiOut = NotCalled
    /\ rdIn = Null /\ rdOut = Null
    /\ etIn = Null /\ etOut = Null
    /\ rlIn \in [ filePath : RacePaths, baseDir : {BaseDirStr},
                  type : ImageTypes, maxBytes : {0, 2},
                  plan : {<<TRUE, TRUE>>, <<FALSE, TRUE>>} ]
    /\ rlOut = [pc |-> "isValidPath", swaps |-> 0, out |-> Pending]
    /\ ServeIdle

\* path.resolve(baseDir, filePath)
ResolvedFile == PathResolve(PathResolve(Cwd, rlIn.baseDir), rlIn.filePath)

RlReturn(out) == rlOut' = [rlOut EXCEPT !.pc = "done", !.out = out]

RlFallback == LoadFallback(rlIn.type, rlIn.plan, 1, 0, 1, NoFile)

\* const isValid = await isValidPath(baseDir, filePath)
AwaitIsValidPath ==
    /\ rlOut.pc = "isValidPath"
    /\ IF ~IsValidPath(fs, rlIn.baseDir, rlIn.filePath, "none").result
       THEN RlReturn(RlFallback)
       ELSE rlOut' = [rlOut EXCEPT
                !.pc = IF rlIn.maxBytes # 0 THEN "stat" ELSE "readFile"]
    /\ UNCHANGED <<fs, rlIn, pathVars, fetchVars, renderVars, etagVars, serveVars>>

\* const stats = await fs.stat(resolvedFile)
AwaitStat ==
    /\ rlOut.pc = "stat"
    /\ \E target \in {Realpath(fs, ResolvedFile)} :
          IF ~target.ok THEN RlReturn(RlFallback)
          ELSE IF fs[target.path].size > rlIn.maxBytes
          THEN RlReturn(LoadFallbackInTry(rlIn.type, rlIn.plan, 0, 1, NoFile))
          ELSE rlOut' = [rlOut EXCEPT !.pc = "readFile"]
    /\ UNCHANGED <<fs, rlIn, pathVars, fetchVars, renderVars, etagVars, serveVars>>

\* return await fs.readFile(resolvedFile)
AwaitReadFile ==
    /\ rlOut.pc = "readFile"
    /\ \E target \in {Realpath(fs, ResolvedFile)} :
          IF ~target.ok \/ fs[target.path].kind # "file"
          THEN RlReturn(RlFallback)
          ELSE RlReturn(Settled("resolved", Raw("file", fs[target.path].bytes),
                                0, 1, target.path, 0))
    /\ UNCHANGED <<fs, rlIn, pathVars, fetchVars, renderVars, etagVars, serveVars>>

\* another process replaces a name below the image directory while the call
\* is in progress
SwapNode ==
    /\ rlOut.pc # "done" /\ rlOut.swaps < MaxSwaps
    /\ \E p \in SwapPaths, n \in SwapNodes :
          /\ fs[p] # n
          /\ fs' = [fs EXCEPT ![p] = n]
    /\ rlOut' = [rlOut EXCEPT !.swaps = @ + 1]
    /\ UNCHANGED <<rlIn, pathVars, fetchVars, renderVars, etagVars, serveVars>>

RaceNext == AwaitIsValidPath \/ AwaitStat \/ AwaitReadFile \/ SwapNode

RaceSpec == RaceInit /\ [][RaceNext]_vars

Src_ctl == N_a \o <<"SOH">>

Src_dotted == N_a \o <<".", "j", "p", "g">>

\* a"b.jpg, as image"with"quotes.jpg of the test
Src_quoted == <<"a", "\"", "b", ".", "j", "p", "g">>

\* the src of a query: absent, empty, local paths and URLs
RequestSources ==
    { Undefined, <<>>, N_a, Src_dotted, <<"m">>, N_big, Src_escape, Src_ctl,
      Src_httpfoo, Src_ok, Src_okUpper, Src_okFtp, Src_no, Src_me, Src_wwwMe,
      Src_quoted }

\* a userId of 129 characters
LongId == [i \in 1..129 |-> "u"]

\* queries that differ from BaseQuery in the fields the schema checks
FieldQueries ==
    { [BaseQuery EXCEPT !.width = Num(60), !.height = Num(1000)],
      [BaseQuery EXCEPT !.width = Num(10), !.height = Num(1000)],
      [BaseQuery EXCEPT !.height = Num(49)],
      [BaseQuery EXCEPT !.height = Num(4001), !.type = "avatar"],
      [BaseQuery EXCEPT !.quality = Num(55)],
      [BaseQuery EXCEPT !.quality = Num(0)],
      [BaseQuery EXCEPT !.quality = Num(101), !.type = "avatar"],
      [BaseQuery EXCEPT !.userId = <<" ">>],
      [BaseQuery EXCEPT !.userId = LongId, !.type = "avatar"],
      [BaseQuery EXCEPT !.extra = TRUE] }

Queries ==
    [ src : RequestSources, format : {Undefined, <<"P","N","G">>},
      width : {NoNum, Num(100), Num(9000)}, height : {NoNum}, quality : {NoNum},
      folder : {"public", "private"}, type : ImageTypes,
      userId : {Undefined, <<" ", "u">>}, extra : {FALSE} ]
    \cup FieldQueries

\* the ETag a client may hold for this query: of the image, of the fallback
KnownEtags(q) ==
    LET userData == RenderUserData(q, BoundsOf(Options(NoFn, NoFn, Undefined, {}, TRUE, NoCacheControl)))
    IN  { EtagOf(Processed(Raw("file", "img_a"), userData, OutputFormat(userData))),
          EtagOf(Processed(FallbackBytes(q.type), userData, OutputFormat(userData))) }

Init ==
    /\ fs = InitialFs
    /\ vpIn = Null /\ vpOut = NotCalled
    /\ fiIn = Null /\ fiOut = NotCalled
    /\ rdIn = Null /\ rdOut = Null
    /\ etIn = Null /\ etOut = Null
    /\ rlIn = Null /\ rlOut = Null
    /\ cfg \in Configs
    /\ \E q \in Queries :
         req \in [query : {q}, ifNoneMatch : {NoEtag} \cup KnownEtags(q)]
    /\ pc = "register"
    /\ loc = NoLocals
    /\ cb = [state |-> "none", dir |-> <<>>]
    /\ res = NoResponse
    /\ sent = <<>>
    /\ log = NoLog
    /\ world = WorldIdle

\* registerServe, lines 162-165: returns the handler, whatever the options
\* are; the request then arrives
Register ==
    /\ pc = "register"
    /\ pc' = "start"
    /\ UNCHANGED <<fs, raceVars, etagVars, renderVars, pathVars, fetchVars, cfg, req, loc, cb, res, sent,
                   log, world>>

\* the steps of serveImage
ServeStep ==
    \/ ParseParams
    \/ AuthorizeFolder
    \/ FolderResume
    \/ ResolveSource
    \/ Transform
    \/ ComputeHeaders
    \/ Respond
    \/ Fallback

Next == Register \/ ServeStep \/ FolderSettles \/ WorldDecides

Spec == Init /\ [][Next]_vars

\* requests for a private folder, to a middleware that has the callback
FairInit ==
    /\ Init
    /\ cfg.getUserFolder = Fn /\ cfg.idHandler = Fn /\ OptionsValid(cfg)
    /\ req.query.folder = "private" /\ req.query.userId # Undefined
    /\ req.query.src = N_a
    /\ req.query.width = NoNum /\ req.query.format = Undefined
    /\ req.ifNoneMatch = NoEtag

\* the event loop runs a handler that can go on, and the calls of the
\* filesystem and of the HTTP client return or fail; nothing obliges the
\* promise of getUserFolder to settle
FairSpec ==
    FairInit /\ [][Next]_vars /\ WF_vars(Register) /\ WF_vars(ServeStep)
    /\ WF_vars(WorldDecides)

(***************************************************************************)
(* Properties of serveImage.                                               *)
(***************************************************************************)
\* C1: a request that waits for the promise of getUserFolder is released,
\* settled promise or not (by the timer of requestTimeoutMs), and a response
\* is eventually sent.
C1_TimeoutReleasesRequest ==
    (pc = "awaitFolder" /\ cb.state = "pending") ~> (sent # <<>>)

\* C2: the terminal calls res.send, res.status(304).end() and next(error)
\* are made at most once in total for a request, and exactly once when
\* serveImage has run to completion.
C2_SingleTerminalCall ==
    /\ Len(sent) <= 1
    /\ pc = "done" => Len(sent) = 1

\* the conditional request answered with 304 and nothing after it
C2_Witness ==
    pc = "done" /\ sent = <<"end">> /\ res.status = 304 /\ res.body = NoBytes

\* the source was not obtained: resolveBuffer gave a fallback or rejected
SourceFailed ==
    \/ loc.failed = "resolve"
    \/ (loc.failed \in {"none", "transform", "header"} /\ loc.imageBuffer.kind = "fallback")

\* C3 as stated: when the source resolution or the transform fails, the
\* status is 200 and the body is the untransformed fallback buffer of the
\* request's category.
C3_FallbackTotality ==
    (pc = "done" /\ (SourceFailed \/ loc.failed = "transform")) =>
        (res.status = 200 /\ res.body = FallbackBytes(loc.userData.type))

\* C3, amended: when the source resolution fails and the fallback asset is
\* read, the fallback of the request's category goes through the transform
\* like a source would: the answer is 200 with the transformed fallback in
\* the output format, or 304 to a matching If-None-Match.  When the catch
\* block answers (a step threw), the status is 200, the type image/jpeg and
\* the body an untransformed fallback buffer, or, when that asset cannot be
\* read, the error goes to next with no body.
C3_FallbackIsTransformed ==
    pc = "done" =>
        /\ (SourceFailed /\ loc.failed = "none") =>
              \/ /\ sent = <<"send">> /\ res.status = 200
                 /\ res.type = MimeOf(OutputFormat(loc.userData))
                 /\ res.body = Processed(FallbackBytes(loc.userData.type), loc.userData,
                                         OutputFormat(loc.userData))
              \/ /\ sent = <<"end">> /\ res.status = 304 /\ res.body = NoBytes
                 /\ req.ifNoneMatch = EtagOf(Processed(FallbackBytes(loc.userData.type),
                                               loc.userData, OutputFormat(loc.userData)))
        /\ loc.failed # "none" =>
              \/ /\ sent = <<"send">> /\ res.status = 200 /\ res.type = C_jpeg
                 /\ res.body \in {FallbackBytes(t) : t \in ImageTypes}
              \/ sent = <<"next">> /\ res.body = NoBytes

\* a missing avatar, answered with the avatar fallback converted to png
C3_Witness ==
    /\ pc = "done" /\ sent = <<"send">> /\ loc.failed = "none"
    /\ req.query.src = <<"m">> /\ req.query.type = "avatar"
    /\ res.body = Processed(FallbackBytes("avatar"), loc.userData, F_png)
    /\ res.type = C_png

\* C4: when the parameters were parsed and a later step failed, the catch
\* block sends the fallback buffer of the request's category.
C4_CatchUsesCategory ==
    (pc = "done" /\ loc.parsed /\ loc.failed \in {"transform", "header"}
       /\ sent = <<"send">>) =>
        res.body = FallbackBytes(loc.userData.type)

SrcOf == loc.userData.src

SrcUrl == ParseURL(SrcOf)

SrcListed ==
    SrcUrl.hostname \in cfg.allowedNetworkList \/ SrcUrl.host \in cfg.allowedNetworkList

Resolved == loc.parsed /\ log.route # "none"

FiNamesSite ==
    /\ FiUrl.ok /\ fiIn.websiteURL # Undefined
    /\ FiUrl.hostname \in {fiIn.websiteURL, S_www \o fiIn.websiteURL}

\* C12: a URL whose hostname is websiteURL or www.websiteURL, whatever its
\* port, is answered by readLocalImage of the URL path with apiRegex stripped,
\* against the base directory, with no GET whatever the allow-list holds; and
\* without a websiteURL a URL is never read from the local filesystem.
C12_InternalReadsLocal ==
    fiOut.called =>
        /\ FiNamesSite =>
              /\ fiOut.net = 0 /\ fiOut.local = 1
              /\ fiOut = ReadLocalImage(fs, StripPrefix(FiUrl.pathname, S_api),
                                        BaseDirStr, fiIn.type, fiIn.opts.maxBytes,
                                        fiIn.env.fault, fiIn.env.plan)
        /\ (FiUrl.ok /\ fiIn.websiteURL = Undefined) =>
              (fiOut.local = 0 /\ fiOut.read = NoFile)

\* https://www.me:8/api/v1/g with the site itself on the allow-list: the file
\* g of the base directory is read and no GET is made
C12_Witness ==
    /\ fiOut.called /\ fiIn.src = Src_wwwMe /\ FiNamesSite
    /\ H_me \in fiIn.allowed
    /\ fiOut.outcome = "resolved" /\ fiOut.read # NoFile
    /\ fiOut.net = 0 /\ fiOut.local = 1

\* the media type of a content-type header as the specification words it:
\* everything from the first ";" dropped, then trimmed, then lower-cased
MediaType(header) ==
    LET semi == IndexOfAny(header, {";"})
    IN  ToLower(Trim(IF semi = 0 THEN header ELSE SubSeq(header, 1, semi - 1)))

\* the GET of the call completed with a 2xx status within the time limit and
\* the size cap and announced an image
GoodResponse ==
    /\ ~fiIn.env.net.error
    /\ fiIn.env.net.delay <= fiIn.opts.timeoutMs
    /\ fiIn.env.net.size <= fiIn.opts.maxBytes
    /\ fiIn.env.net.status \in 200..299
    /\ MediaType(fiIn.env.net.ctype) \in AllowedMimeTypes

ResponseVerbatim ==
    /\ fiOut.outcome = "resolved" /\ fiOut.fb = 0
    /\ fiOut.bytes = Raw("http", fiIn.env.net.body)

\* C13 as stated: after a GET the result is the response bytes exactly when
\* the response was good, and in every other case it is the fallback of the
\* given category.
C13_BytesOrFallback ==
    (fiOut.called /\ fiOut.net = 1) =>
        /\ GoodResponse <=> ResponseVerbatim
        /\ ~GoodResponse =>
              (fiOut.outcome = "resolved" /\ fiOut.bytes = FallbackBytes(fiIn.type))

\* C13, amended: as stated as long as the fallback asset can be read; when
\* the response is not good and the last load of the fallback asset fails,
\* the promise rejects.
C13_BytesOrFallbackIfReadable ==
    (fiOut.called /\ fiOut.net = 1) =>
        /\ GoodResponse <=> ResponseVerbatim
        /\ ~GoodResponse =>
              /\ fiOut.fb \in 1..2
              /\ IF fiIn.env.plan[fiOut.fb]
                 THEN fiOut.outcome = "resolved"
                      /\ fiOut.bytes = FallbackBytes(fiIn.type)
                 ELSE fiOut.outcome = "rejected"

\* a 200 with content-type " Image/JPEG ;a" is returned verbatim
C13_Witness ==
    /\ fiOut.called /\ fiOut.net = 1 /\ fiIn.env.net.ctype = C_jpegPad
    /\ GoodResponse /\ ResponseVerbatim

\* C14: no local file larger than maxDownloadBytes is read for a request,
\* whether the source is a plain relative path or an internal URL: the file
\* that a request reads has at most maxDownloadBytes bytes.
C14_LocalReadBounded ==
    (Resolved /\ log.read # NoFile) => fs[log.read].size <= cfg.maxDownloadBytes

\* C15: every configuration that renderOptions accepts has its bounds in
\* order: minWidth <= maxWidth and minHeight <= maxHeight.
C15_AcceptedBoundsOrdered ==
    (rdOut.step # "start" /\ ~rdOut.optionsThrew) =>
        /\ rdIn.options.minWidth <= rdIn.options.maxWidth
        /\ rdIn.options.minHeight <= rdIn.options.maxHeight

\* C16: a handler exists only for a valid configuration, and no request is
\* answered (by a response or by next) by a handler whose configuration
\* optionsSchema rejects.
C16_InvalidConfigNeverAnswers ==
    (pc # "register" /\ sent # <<>>) => OptionsValid(cfg)

\* both calls returned
Rendered == rdOut.step = "done" /\ ~rdOut.optionsThrew /\ ~rdOut.userDataThrew

MaxOf(a, b) == IF a >= b THEN a ELSE b

MinOf(a, b) == IF a <= b THEN a ELSE b

\* what the clamping law asks of one dimension: given n and lo <= hi, all
\* within 50..4000, the result is max(lo, min(hi, n)); absent stays absent
ClampLaw(n, lo, hi, out) ==
    /\ ( /\ n.given /\ n.value \in 50..4000
         /\ lo <= hi /\ lo \in 50..4000 /\ hi \in 50..4000 )
          => out = Num(MaxOf(lo, MinOf(hi, n.value)))
    /\ ~n.given => out = NoNum

\* C17: renderUserData resolves a width w of 50..4000 to max(lo, min(hi, w))
\* for configured bounds lo <= hi within 50..4000, likewise the height with
\* the height bounds, and leaves an absent width or height undefined.
C17_ClampingLaw ==
    Rendered =>
        /\ ClampLaw(rdIn.query.width, rdIn.options.minWidth,
                    rdIn.options.maxWidth, rdOut.userData.width)
        /\ ClampLaw(rdIn.query.height, rdIn.options.minHeight,
                    rdIn.options.maxHeight, rdOut.userData.height)

\* width 60 raised to the minimum 100 and height 1000 lowered to the maximum
\* 500 in one call
C17_Witness ==
    /\ Rendered
    /\ rdIn.query.width = Num(60) /\ rdIn.options.minWidth = 100
    /\ rdOut.userData.width = Num(100)
    /\ rdIn.query.height = Num(1000) /\ rdIn.options.maxHeight = 500
    /\ rdOut.userData.height = Num(500)

\* the request has run to its end under a configuration that parses
Served == pc = "done" /\ OptionsValid(cfg)

\* the fields of the query other than width and height pass the schema
RestOfQueryOk ==
    UserDataValid([req.query EXCEPT !.width = NoNum, !.height = NoNum])

\* the request took the validation-error path
ValidationPath == ~loc.parsed /\ loc.failed = "parse"

C19_QualityDefaultsToConfig ==
    Rendered =>
        rdOut.userData.quality =
            IF rdIn.query.quality.given THEN rdIn.query.quality.value
            ELSE rdIn.options.defaultQuality

\* the ways the claim lists in which a query fails validation
QueryBreaksSchema ==
    \/ req.query.width.given /\ req.query.width.value \notin 50..4000
    \/ req.query.height.given /\ req.query.height.value \notin 50..4000
    \/ req.query.quality.given /\ req.query.quality.value \notin 1..100
    \/ req.query.userId # Undefined
         /\ (Trim(req.query.userId) = <<>> \/ Len(Trim(req.query.userId)) > 128)
    \/ req.query.extra
    \/ req.query.src = <<>>

\* the answer of the catch block: the untransformed normal fallback
FallbackAnswer ==
    /\ sent = <<"send">> /\ res.status = 200
    /\ res.body = FallbackBytes("normal") /\ res.type = C_jpeg
    /\ res.cacheControl = "public, max-age=60" /\ res.etag = NoEtag

MainPathSucceeded == loc.parsed /\ loc.processedImage # NoBytes

BothTagged ==
    /\ etOut.first.done /\ etOut.second.done
    /\ etIn.first.etag /\ etIn.second.etag

\* the two runs have the same source and their parsed queries differ in the
\* quality and in nothing else
DifferOnlyInQuality ==
    /\ etIn.first.source = etIn.second.source
    /\ etOut.first.userData.quality # etOut.second.userData.quality
    /\ [etOut.first.userData EXCEPT !.quality = 0]
         = [etOut.second.userData EXCEPT !.quality = 0]

MainResponse == pc = "done" /\ sent = <<"send">> /\ loc.failed = "none"

\* every double quote, backslash and control character replaced by "_"
Sanitized(name) ==
    [ i \in 1..Len(name) |->
        IF name[i] \in {"\"", "\\"} \cup ControlChars THEN "_" ELSE name[i] ]

QuoteCount(v) == Cardinality({ i \in 1..Len(v) : v[i] = "\"" })

\* C23: the Content-Disposition of a main-path response names the base name
\* of the source with the output format as its extension and with quotes,
\* backslashes and control characters replaced by underscores, so that the
\* value holds exactly two quotes and no control character.
C23_FilenameSanitized ==
    MainResponse =>
        /\ res.disposition =
              Disposition(Sanitized(ProcessedFileName(loc.userData,
                                                      OutputFormat(loc.userData))))
        /\ QuoteCount(res.disposition) = 2
        /\ HeaderValueOk(res.disposition)

\* C24: next is called only after the main path failed and the load of the
\* fallback in the catch block failed as well, then exactly once and with
\* nothing sent; every other request that ends has status 200 or 304.
C24_FatalOnlyAfterFallbackFails ==
    pc = "done" =>
        /\ "next" \in {sent[i] : i \in 1..Len(sent)}
              <=> (loc.failed # "none" /\ log.catchLoad = "failed")
        /\ log.catchLoad = "failed" => (sent = <<"next">> /\ res.body = NoBytes)
        /\ log.catchLoad # "failed" => res.status \in {200, 304}

\* a transform that fails, then a fallback asset that cannot be read
C24_Witness ==
    /\ pc = "done" /\ sent = <<"next">> /\ res.body = NoBytes
    /\ loc.failed = "transform" /\ log.catchLoad = "failed"

\* the user id that the callback is to be given
ExpectedFolderArg ==
    IF loc.userData.userId = Undefined THEN Undefined
    ELSE IF cfg.idHandler = Fn THEN IdHandler(loc.userData.userId)
    ELSE loc.userData.userId

\* the request has gone past the folder authorization
PastFolder ==
    /\ loc.parsed /\ loc.failed # "folder"
    /\ pc \in {"resolve", "transform", "headers", "respond", "catch", "done"}

\* C25: getUserFolder is called at most once, only for folder=private with a
\* callback configured, and with the id that idHandler returned; a public
\* request keeps the configured baseDir, as does one whose callback returned
\* an empty path; any other returned path is the base directory of this
\* request, and the configuration is left as it was registered.
C25_FolderFrame ==
    /\ cfg \in Configs
    /\ log.folderCalls <= 1
    /\ log.folderCalls = 1 =>
          /\ loc.parsed /\ loc.userData.folder = "private" /\ cfg.getUserFolder = Fn
          /\ log.folderArg = ExpectedFolderArg
    /\ (loc.parsed /\ loc.userData.folder = "public") =>
          (log.folderCalls = 0 /\ loc.baseDir = cfg.baseDir)
    /\ PastFolder =>
          /\ log.folderCalls = 1
                <=> (loc.userData.folder = "private" /\ cfg.getUserFolder = Fn)
          /\ loc.baseDir = IF log.folderCalls = 1 /\ cb.dir # <<>>
                           THEN cb.dir ELSE cfg.baseDir

\* a private request served from the folder that the callback returned for
\* the id p-u
C25_Witness ==
    /\ pc = "done" /\ sent = <<"send">> /\ PastFolder
    /\ log.folderCalls = 1 /\ log.folderArg = IdHandler(<<"u">>)
    /\ cb.dir = UserDir /\ loc.baseDir = UserDir /\ cfg.baseDir = BaseDirStr
    /\ log.read # NoFile

\* the resolution of this request read the asset of the normal fallback
\* from disk, and the read succeeded
NormalFallbackLoaded == loc.imageBuffer = FallbackBytes("normal")

\* C26: once the asset of a category has been loaded, no later use of that
\* category reads the file again, so a later use cannot fail or differ: a
\* request whose resolution loaded the normal fallback makes no second read
\* of it in its catch block.
C26_FallbackLoadedOnce ==
    NormalFallbackLoaded => log.catchLoad = "none"

\* the source of the request is one that must not be served: the resolution
\* ended in the fallback, or it read a file larger than maxDownloadBytes
ResolutionFailure ==
    /\ Resolved /\ loc.imageBuffer # NoBytes
    /\ \/ loc.imageBuffer.kind = "fallback"
       \/ log.read # NoFile /\ fs[log.read].size > cfg.maxDownloadBytes

\* the transformed fallback of the request's category
FallbackImage ==
    Processed(FallbackBytes(loc.userData.type), loc.userData, OutputFormat(loc.userData))

\* the response that depends on nothing but the other parameters of the
\* request: the transformed fallback with the headers of the main path, or
\* the 304 for its ETag
SourceBlindResponse ==
    IF cfg.etag /\ req.ifNoneMatch = EtagOf(FallbackImage)
    THEN res.status = 304 /\ res.body = NoBytes /\ res.etag = NoEtag
    ELSE /\ res.status = 200 /\ res.body = FallbackImage
         /\ res.type = MimeOf(OutputFormat(loc.userData))
         /\ res.cacheControl = IF cfg.cacheControl.given THEN cfg.cacheControl.value
                                ELSE DefaultCacheControl
         /\ res.etag = IF cfg.etag THEN EtagOf(FallbackImage) ELSE NoEtag

\* C27: the response to a request whose source fails resolution is the same
\* whatever the reason of the failure: its status, body, Content-Type,
\* Cache-Control and ETag are determined by the other parameters, the fallback
\* asset being readable and the transform succeeding.
C27_FailuresIndistinguishable ==
    (pc = "done" /\ ResolutionFailure /\ loc.failed \in {"none", "header"})
        => SourceBlindResponse

\* the resolution ended in the fallback and the transform returned
FallbackTransformed ==
    /\ Resolved /\ loc.imageBuffer # NoBytes /\ loc.imageBuffer.kind = "fallback"
    /\ loc.processedImage # NoBytes

\* C28: a request whose source failed resolution and whose transform succeeded
\* never enters the catch block: it is answered on the main path with the
\* transformed fallback of its category, the Content-Type of the requested
\* format, the configured or default Cache-Control and, when enabled, the
\* ETag (or with the 304 for that ETag), and not with fallback.jpeg.
C28_FailedSourceStaysOnMainPath ==
    (pc = "done" /\ FallbackTransformed) =>
        /\ loc.failed = "none" /\ log.catchLoad = "none"
        /\ SourceBlindResponse
        /\ res.disposition # Disposition(S_fallbackName)

\* optionsSchema accepts this websiteURL (schema.ts line 90)
SiteAccepted(w) == HostLike(w) \/ ParseURL(w).ok

\* the host of the site that a websiteURL names
SiteHostOf(w) == IF HostLike(w) THEN w ELSE ParseURL(w).hostname

\* C29: for every websiteURL that the validation accepts, the full-URL form
\* included, a source URL on the host of that site is read from the local
\* filesystem and no GET is made.
C29_AcceptedSiteIsInternal ==
    ( /\ fiOut.called /\ FiUrl.ok /\ fiIn.websiteURL # Undefined
      /\ SiteAccepted(fiIn.websiteURL)
      /\ FiUrl.hostname = SiteHostOf(fiIn.websiteURL) )
        => (fiOut.local = 1 /\ fiOut.net = 0)

\* the call of readLocalImage has returned the bytes of a file
RlReturnedFile ==
    rlOut.pc = "done" /\ rlOut.out.bytes.kind = "file"

\* C30: whatever other processes do to the filesystem between isValidPath
\* and stat/readFile, the bytes that readLocalImage returns, when they are
\* not a fallback, are those of a file whose canonical location is inside
\* the canonical base directory when it is read.
C30_ReadInsideBaseUnderRace ==
    RlReturnedFile =>
        LET realBase == Realpath(fs, PathResolve(Cwd, rlIn.baseDir))
        IN  /\ realBase.ok
            /\ Contained(realBase.path, rlOut.out.read)

====
